---- MODULE Spec2Model ----
(***************************************************************************)
(* Presence / online-status tracker of the chat application.               *)
(*                                                                         *)
(*   src/src/lib/presence.ts            setupPresence: one device record   *)
(*                                      per session, heartbeat, teardown   *)
(*   src/src/hooks/use-online-status.ts useOnlineStatus: the resolver      *)
(*                                      cleanupAndUpdateStatus             *)
(*   src/src/components/providers/auth-provider.tsx   signOut              *)
(*   src/src/hooks/use-presence.ts      usePresence                        *)
(*   src/src/lib/presence-final.ts      PresenceManager: the presence      *)
(*                                      record of the realtime database    *)
(*   src/src/lib/auth-service.ts        signIn..., signOut                 *)
(*   src/scripts/migrate-devices-to-subcollection.js   device records of   *)
(*                                      the old `devices` array            *)
(*   src/src/app/api/device/route.ts    POST: the rate limiter of the      *)
(*                                      device registration endpoint       *)
(*                                                                         *)
(* Time is counted in seconds since the epoch (the source counts           *)
(* milliseconds; every threshold of the source is a whole number of        *)
(* seconds).  A timestamp of 0 is "no timestamp": the source reads a       *)
(* missing lastSeen as 0 (`... || 0`) and tests it for truthiness.         *)
(*                                                                         *)
(* The store is the transactional document store: a user document          *)
(* users/{uid} and the collection users/{uid}/devices.  Every await of the *)
(* source is a point where other clients' steps interleave, so a resolver  *)
(* pass is a sequence of steps, one per store operation.                   *)
(***************************************************************************)
EXTENDS Integers, FiniteSets, Sequences, TLC

\* ---------------------------------------------------------------- constants

DEVICE_STALENESS_THRESHOLD == 15
OFFLINE_THRESHOLD == 30
CLEANUP_INTERVAL == 15
HEARTBEAT_INTERVAL == 30
\* PRESENCE_CONFIG of presence-final.ts.
MAX_RETRY_ATTEMPTS == 3
DEBOUNCE_DELAY == 1
\* isDeviceRegistrationRateLimited of route.ts: 5 minutes, 3 registrations.
windowMs == 300
maxRequests == 3
\* 24 * 60 * 60 seconds: the inactivity period after which the resolver
\* forces the user offline.
DAY == 86400

\* ------------------------------------------------------------------ bounds

\* Clock ticks the model lets pass.
MaxTicks == 3
\* Clock ticks, of DEBOUNCE_DELAY each, where PresenceManager is concerned.
MaxManagerTicks == 2
\* Clock ticks, of windowMs each, where the registration endpoint is concerned.
MaxEndpointTicks == 2

\* Two tabs (or devices) of the same user.  The application shell of a tab
\* mounts usePresence and useOnlineStatus side by side: a tab has one presence
\* session, whose deviceId its name stands for, and one resolver.
Tabs == {"tabA", "tabB"}
Sessions == Tabs
Resolvers == Tabs

\* The clock advances in steps of the staleness threshold: a lastSeen is 0,
\* 15, 30, ... seconds old, which meets every class of the classification
\* and both of its boundaries.
Quantum == DEVICE_STALENESS_THRESHOLD
\* The clock at the start: more than a day after the epoch, so that a
\* lastActive of long ago exists.
StartTime == DAY + OFFLINE_THRESHOLD
EndTime == StartTime + MaxTicks * Quantum

\* lastActive of the user document before the first session of the model:
\* absent, or more than a day old.  (The status transaction writes the
\* current ones.)
InitialLastActive == {0, Quantum}

VARIABLES
  now,                \* the wall clock (Date.now(), Timestamp.now(), serverTimestamp())
  user,               \* users/{uid}: [status, deviceCount, lastActive]
  devices,            \* users/{uid}/devices: deviceId -> lastSeen, a function
                      \* whose domain is the set of existing records
  session,            \* per setupPresence call: "none", "running", "unloaded", "stopped"
  heartbeatInterval,  \* per session: 0 when the timer is not armed, else the
                      \* time of its next tick
  mounted,            \* per resolver: the interval of useOnlineStatus is armed
                      \* and its registry listener registered
  pc,                 \* per resolver: the store operation its pass waits for
  local,              \* per resolver: the local variables of the pass
  pass,               \* per resolver: bookkeeping of the running pass
                      \* (state at its start, interference, failures)
  done,               \* the pass that has just ended, if no other step followed
  statusWriter,       \* the operation that last wrote user.status
  snapshot,           \* per resolver: its registry listener (onSnapshot) has a
                      \* change of the registry to deliver
  hook,               \* usePresence of one component: [effect, cleanupRef]
  promise,            \* per setupPresence call of usePresence: the state of
                      \* the promise it returned
  manager,            \* the fields of the PresenceManager singleton
  listeners,          \* the listeners PresenceManager has registered
  debounced,          \* the pending call of debouncedPresenceUpdate
  call,               \* the asynchronous calls of PresenceManager in flight
  connected,          \* .info/connected: the realtime database connection
  connNotify,         \* the connection listener has a value to deliver
  visibilityState,    \* document.visibilityState
  statusRef,          \* /status/{uid} of the realtime database: [state,
                      \* onDisconnect (a hook is pending on the server)]
  users,              \* users/{uid}.status of the document store, per user
  currentUser,        \* auth.currentUser
  deviceRateLimitStore, \* the Map of route.ts: key -> [count, resetTime]
  response            \* the response to the last request of the endpoint

\* The clock, the store, the sessions and the resolvers; the variables of the
\* registry listener; those of usePresence.
sessionVars == <<user, devices, session, heartbeatInterval, mounted, pc,
                 local, pass, done, statusWriter>>
coreVars == <<now, sessionVars>>
listenerVars == <<snapshot>>
hookVars == <<hook, promise>>
\* Those of PresenceManager, its stores and the login.
managerVars == <<manager, listeners, debounced, call, connected, connNotify,
                 visibilityState, statusRef, users, currentUser>>

\* Those of the device registration endpoint.
endpointVars == <<deviceRateLimitStore, response>>

vars == <<coreVars, listenerVars, hookVars, managerVars, endpointVars>>

\* ------------------------------------------------------------------ helpers

Max(S) == CHOOSE x \in S : \A y \in S : y <= x

\* The empty registry.
NoDevices == <<>>

Ids(reg) == DOMAIN reg

\* lastActive: userData.lastActive of the first read; devices, now: the
\* registry snapshot and Date.now() of the classification; currentDevices,
\* txNow: those of the transaction; dirty: the user document was written by
\* somebody else after the transaction read it.
NoLocal == [lastActive |-> 0, devices |-> NoDevices, now |-> 0,
            currentDevices |-> NoDevices, txNow |-> 0, dirty |-> FALSE]

NoStart == [devices |-> NoDevices, status |-> "offline", deviceCount |-> 0,
            lastActive |-> 0, now |-> 0]

\* start: the store and the clock when the pass began; quiet: no step of
\* another client and no clock tick since; failed: a store operation of the
\* pass failed; afterPass: the pass began right after another pass ended
\* (nothing in between); prevClean: that pass was quiet and had no failure;
\* refreshed: the pass wrote lastSeen of a stale device; prevRefreshed: the
\* pass before did.
NoPass == [start |-> NoStart, quiet |-> TRUE, failed |-> FALSE,
           afterPass |-> FALSE, prevClean |-> FALSE,
           refreshed |-> FALSE, prevRefreshed |-> FALSE]

\* outcome: "skipped" (the early return on status offline), "forced" (one of
\* the two updateDoc writes of offline), "resolved" (the transaction
\* committed), "error" (a catch block ran); basis: the registry snapshot the
\* write of the summary was computed from.
NoDone == [valid |-> FALSE, tab |-> "none", start |-> NoStart, quiet |-> TRUE,
           failed |-> FALSE, afterPass |-> FALSE, prevClean |-> FALSE,
           refreshed |-> FALSE, prevRefreshed |-> FALSE,
           outcome |-> "none", basis |-> NoDevices]

\* ---------------------------------------------- staleness classification

activeDevices(reg, t) ==
  {d \in Ids(reg) : reg[d] # 0 /\ t - reg[d] < DEVICE_STALENESS_THRESHOLD}

inactiveDevices(reg, t) ==
  {d \in Ids(reg) : /\ reg[d] # 0
                    /\ t - reg[d] >= DEVICE_STALENESS_THRESHOLD
                    /\ t - reg[d] < OFFLINE_THRESHOLD}

staleDevices(reg, t) ==
  {d \in Ids(reg) : reg[d] = 0 \/ t - reg[d] >= OFFLINE_THRESHOLD}

\* `userData?.lastActive?.toDate?.().getTime() || now`, then the day test.
InactiveForADay(lastActive, t) ==
  t - (IF lastActive # 0 THEN lastActive ELSE t) > DAY

\* The two non-transactional writes `updateDoc(userRef, {status: 'offline',
\* deviceCount: 0, ...})`.
ForcedOffline(userDoc) ==
  [userDoc EXCEPT !.status = "offline", !.deviceCount = 0]

\* Each stale device is written {status: 'offline', lastSeen: Timestamp.now()};
\* ok is the set of devices whose write succeeds.
StaleDeviceUpdate(reg, ok, t) ==
  [d \in Ids(reg) |-> IF d \in ok THEN t ELSE reg[d]]

\* TransactionUpdate with deviceCount added to the stored count, the way
\* presence.ts counts with increment(), instead of overwriting it.
TransactionUpdate_Increment(userDoc, currentDevices, t) ==
  LET newest == Max({currentDevices[d] : d \in Ids(currentDevices)})
  IN
  IF Ids(currentDevices) = {} \/ t - newest >= OFFLINE_THRESHOLD
  THEN [status |-> "offline", deviceCount |-> 0,
        lastActive |-> IF userDoc.lastActive # 0 THEN userDoc.lastActive ELSE t]
  ELSE IF activeDevices(currentDevices, t) # {}
            /\ t - newest < DEVICE_STALENESS_THRESHOLD
  THEN [status |-> "online",
        deviceCount |-> userDoc.deviceCount
                          + Cardinality(activeDevices(currentDevices, t)),
        lastActive |-> t]
  ELSE [status |-> "away",
        deviceCount |-> userDoc.deviceCount
                          + Cardinality(inactiveDevices(currentDevices, t)),
        lastActive |-> newest]

\* The update function of the status transaction: the user document the
\* transaction writes, from the document it read, the registry it read and
\* the clock.
TransactionUpdate(userDoc, currentDevices, t) ==
  LET keptLastActive == IF userDoc.lastActive # 0 THEN userDoc.lastActive ELSE t
  IN
  IF Ids(currentDevices) = {}
  THEN [status |-> "offline", deviceCount |-> 0, lastActive |-> keptLastActive]
  ELSE
    LET actualActiveDevices == activeDevices(currentDevices, t)
        actualInactiveDevices == inactiveDevices(currentDevices, t)
        mostRecentActivity == Max({currentDevices[d] : d \in Ids(currentDevices)})
        timeSinceLastActivity == t - mostRecentActivity
    IN
    IF timeSinceLastActivity >= OFFLINE_THRESHOLD
    THEN [status |-> "offline", deviceCount |-> 0, lastActive |-> keptLastActive]
    ELSE IF /\ actualActiveDevices # {}
            /\ timeSinceLastActivity < DEVICE_STALENESS_THRESHOLD
    THEN [status |-> "online",
          deviceCount |-> Cardinality(actualActiveDevices),
          lastActive |-> t]
    ELSE [status |-> IF timeSinceLastActivity < OFFLINE_THRESHOLD
                     THEN "away" ELSE "offline",
          deviceCount |-> Cardinality(actualInactiveDevices),
          lastActive |-> IF mostRecentActivity # 0 THEN mostRecentActivity ELSE t]

\* A catch block that marks the user offline when the pass failed.
CatchHandler_MarkOffline(userDoc) == [userDoc EXCEPT !.status = "offline"]

\* What the two catch blocks of cleanupAndUpdateStatus do to the user
\* document: they log and return.
CatchHandler(userDoc) == userDoc

\* ------------------------------------------------------------ bookkeeping

\* Another client wrote the user document: every status transaction that has
\* read it and not yet committed will find its read out of date.
MarkDirty(loc, writer) ==
  [r \in Resolvers |->
     IF pc[r] = "commit" /\ r # writer
     THEN [loc[r] EXCEPT !.dirty = TRUE] ELSE loc[r]]

\* A step of somebody else happened while these passes were running.
\* (What is recorded of a pass that is no longer quiet is only that, and
\* whether it failed.)
Disturb(p, stepper) ==
  [r \in Resolvers |->
     IF pc[r] # "idle" /\ r # stepper
     THEN [NoPass EXCEPT !.quiet = FALSE, !.failed = p[r].failed] ELSE p[r]]

Summary(userDoc) == [status |-> userDoc.status, deviceCount |-> userDoc.deviceCount]

\* The user that logs in on this client.
Users == {"u1"}

\* PresenceManager after its constructor: no user, no references, the
\* heartbeat timer not armed, the stale-presence cleanup timer armed.
NoManager == [uid |-> "none", presenceRef |-> "none", userDocRef |-> "none",
              heartbeatInterval |-> FALSE, cleanupInterval |-> TRUE,
              cleanupFn |-> FALSE, retryCount |-> 0, isReconnecting |-> FALSE,
              lastSuccessfulUpdate |-> 0]

\* No call of the debounced function is pending.  due: when the debounce
\* timer expires (0: no timer); state: the argument of the last call;
\* source: who made it, "heartbeat" or "visibility".
NoDebounced == [due |-> 0, state |-> "online", source |-> "none"]

\* _updatePresenceState not running.  pc: "write" while the two writes are
\* awaited, "retryWait" during the delay of handleUpdateError; state: the
\* argument; uid: the user the references pointed to when the writes were
\* issued.
NoUpdate == [pc |-> "idle", state |-> "online", uid |-> "none"]

\* setOffline not running.  pc: "write" while its writes are awaited,
\* "returned" when the call has returned; arg: the uid setOfflineStatus was
\* called with; uid: the user the references pointed to; failed: its write
\* was rejected.
NoSetOffline == [pc |-> "idle", arg |-> "none", uid |-> "none", failed |-> FALSE]

\* No asynchronous call in flight.  initialize: the uid initialize awaits the
\* registration of the on-disconnect hook for; connection: the user the
\* connection callback awaits its online writes for; visibility: the
\* visibility state whose handler awaits the debounced call.
NoCall == [initialize |-> "idle", connection |-> "idle", update |-> NoUpdate,
           visibility |-> "idle", setOffline |-> NoSetOffline]

\* usePresence before its effect has run: effect is the setupPresence call of
\* the effect that is in place ("none" when no effect is), cleanupRef the
\* call whose stop function cleanupRef.current holds ("none" for undefined).
NoHook == [effect |-> "none", cleanupRef |-> "none"]

\* The users and the client addresses that call the device registration
\* endpoint, and the keys of its rate limiter: `user:${userId}` and
\* `ip:${clientIP}`.
Callers == {"u1", "u2"}
Addresses == {"ip1", "ip2"}
userKey(u) == <<"user", u>>
ipKey(a) == <<"ip", a>>
Keys == {userKey(u) : u \in Callers} \cup {ipKey(a) : a \in Addresses}

\* deviceRateLimitStore.get(identifier) of a key the Map does not hold.
NoRecord == [count |-> 0, resetTime |-> 0]

\* No request has been answered yet.
NoResponse == [status |-> 0, user |-> "none", ip |-> "none"]

\* ------------------------------------------------------------------- Init

Init ==
  /\ now = StartTime
  /\ \E la \in InitialLastActive :
       user = [status |-> "offline", deviceCount |-> 0, lastActive |-> la]
  /\ devices = NoDevices
  /\ session = [s \in Sessions |-> "none"]
  /\ heartbeatInterval = [s \in Sessions |-> 0]
  /\ mounted = [r \in Resolvers |-> TRUE]
  /\ pc = [r \in Resolvers |-> "idle"]
  /\ local = [r \in Resolvers |-> NoLocal]
  /\ pass = [r \in Resolvers |-> NoPass]
  /\ done = NoDone
  /\ statusWriter = "none"
  /\ snapshot = [r \in Resolvers |-> FALSE]
  /\ hook = NoHook
  /\ promise = [s \in Sessions |-> "none"]
  /\ manager = NoManager
  /\ listeners = {}
  /\ debounced = NoDebounced
  /\ call = NoCall
  /\ connected = TRUE
  /\ connNotify = FALSE
  /\ visibilityState = "visible"
  /\ statusRef = [u \in Users |-> [state |-> "none", onDisconnect |-> FALSE]]
  /\ users = [u \in Users |-> "offline"]
  /\ currentUser = "none"
  /\ deviceRateLimitStore = [k \in Keys |-> NoRecord]
  /\ response = NoResponse

\* ------------------------------------------------------------------ clock

Tick ==
  /\ now < EndTime
  /\ now' = now + Quantum
  /\ pass' = Disturb(pass, "env")
  /\ done' = NoDone
  /\ UNCHANGED <<user, devices, session, heartbeatInterval, mounted, pc, local,
                 statusWriter>>

\* ------------------------------------------------- presence.ts: sessions

\* setupPresence(userId): the transaction sets the device record and updates
\* the user document, then the heartbeat timer is armed and the beforeunload
\* listener registered.
SetupPresence(s) ==
  /\ session[s] = "none"
  /\ devices' = [d \in Ids(devices) \cup {s} |-> IF d = s THEN now ELSE devices[d]]
  /\ user' = [user EXCEPT !.deviceCount = @ + 1, !.status = "online"]
  /\ statusWriter' = "setupPresence"
  /\ session' = [session EXCEPT ![s] = "running"]
  /\ heartbeatInterval' = [heartbeatInterval EXCEPT ![s] = now + HEARTBEAT_INTERVAL]
  /\ local' = MarkDirty(local, "env")
  /\ pass' = Disturb(pass, "env")
  /\ done' = NoDone
  /\ UNCHANGED <<now, mounted, pc>>

\* Heartbeat that writes the summary as well, the way the heartbeat of
\* PresenceManager does (status online on every beat).
Heartbeat_WritesSummary(s) ==
  /\ heartbeatInterval[s] # 0
  /\ now >= heartbeatInterval[s]
  /\ heartbeatInterval' = [heartbeatInterval EXCEPT ![s] = now + HEARTBEAT_INTERVAL]
  /\ \E ok \in BOOLEAN :
       IF ok /\ s \in Ids(devices)
       THEN /\ devices' = [devices EXCEPT ![s] = now]
            /\ user' = [user EXCEPT !.status = "online"]
       ELSE UNCHANGED <<devices, user>>
  /\ pass' = Disturb(pass, "env")
  /\ done' = NoDone
  /\ UNCHANGED <<now, session, mounted, pc, local, statusWriter>>

\* Heartbeat whose timer is cleared when the write fails.
Heartbeat_StopsOnFailure(s) ==
  /\ heartbeatInterval[s] # 0
  /\ now >= heartbeatInterval[s]
  /\ \E ok \in BOOLEAN :
       IF ok /\ s \in Ids(devices)
       THEN /\ devices' = [devices EXCEPT ![s] = now]
            /\ heartbeatInterval' =
                 [heartbeatInterval EXCEPT ![s] = now + HEARTBEAT_INTERVAL]
       ELSE /\ heartbeatInterval' = [heartbeatInterval EXCEPT ![s] = 0]
            /\ UNCHANGED <<devices>>
  /\ pass' = Disturb(pass, "env")
  /\ done' = NoDone
  /\ UNCHANGED <<now, user, session, mounted, pc, local, statusWriter>>

\* A tick of the heartbeat timer: updateDoc(deviceRef, {lastSeen}).  The
\* write fails when the store is unreachable or the record is gone; the
\* callback catches the failure.
Heartbeat(s) ==
  /\ heartbeatInterval[s] # 0
  /\ now >= heartbeatInterval[s]
  /\ heartbeatInterval' = [heartbeatInterval EXCEPT ![s] = now + HEARTBEAT_INTERVAL]
  /\ \E ok \in BOOLEAN :
       IF ok /\ s \in Ids(devices)
       THEN /\ devices' = [devices EXCEPT ![s] = now]
                 ELSE UNCHANGED <<devices>>
  /\ pass' = Disturb(pass, "env")
  /\ done' = NoDone
  /\ UNCHANGED <<now, user, session, mounted, pc, local, statusWriter>>

\* cleanup(): clearInterval, then the transaction that deletes the device
\* record and decrements deviceCount; a failed transaction is caught.
cleanup(s, ok) ==
  /\ heartbeatInterval' = [heartbeatInterval EXCEPT ![s] = 0]
  /\ IF ok
     THEN /\ devices' = [d \in Ids(devices) \ {s} |-> devices[d]]
          /\ user' = [user EXCEPT !.deviceCount = @ - 1]
          /\ local' = MarkDirty(local, "env")
     ELSE UNCHANGED <<devices, user, local>>
  /\ pass' = Disturb(pass, "env")
  /\ done' = NoDone
  /\ UNCHANGED <<now, mounted, pc, statusWriter>>

\* The beforeunload event: the listener runs cleanup and stays registered.
BeforeUnload(s) ==
  /\ session[s] = "running"
  /\ session' = [session EXCEPT ![s] = "unloaded"]
  /\ \E ok \in BOOLEAN : cleanup(s, ok)

\* The function setupPresence returned: removes the listener, runs cleanup.
StopPresence(s) ==
  /\ session[s] \in {"running", "unloaded"}
  /\ session' = [session EXCEPT ![s] = "stopped"]
  /\ \E ok \in BOOLEAN : cleanup(s, ok)

\* ------------------------------------------------- auth-provider: signOut

\* signOut: updateDoc(users/{uid}, {status: 'offline', lastSeen}); a failure
\* is caught.
SignOut ==
  /\ user.status # "offline"
  /\ user' = [user EXCEPT !.status = "offline"]
  /\ statusWriter' = "signOut"
  /\ local' = MarkDirty(local, "env")
  /\ pass' = Disturb(pass, "env")
  /\ done' = NoDone
  /\ UNCHANGED <<now, devices, session, heartbeatInterval, mounted, pc>>

\* ------------------------------------- use-online-status.ts: the resolver

\* The effect of useOnlineStatus has run in every tab: the interval is armed
\* and the registry listener registered.  The first pass, every tick of the
\* interval and every registry event start a pass (StartPass below).

\* The cleanup of the effect: clearInterval and unsubscribe.  A pass that is
\* running goes on.
Unmount(r) ==
  /\ mounted[r]
  /\ mounted' = [mounted EXCEPT ![r] = FALSE]
  /\ done' = NoDone
  /\ UNCHANGED <<now, user, devices, session, heartbeatInterval, pc, local, pass,
                 statusWriter>>

\* The pass of resolver r ends: cleanupAndUpdateStatus returns.
EndPass(r, p, outcome, failedNow, basis) ==
  /\ pc' = [pc EXCEPT ![r] = "idle"]
  /\ done' = [valid |-> TRUE, tab |-> r, start |-> p.start, quiet |-> p.quiet,
              failed |-> p.failed \/ failedNow, afterPass |-> p.afterPass,
              prevClean |-> p.prevClean, refreshed |-> p.refreshed,
              prevRefreshed |-> p.prevRefreshed,
              outcome |-> outcome, basis |-> basis]

\* A store operation of the pass threw: the catch block runs and the pass
\* ends.  Nothing but the catch block touches the store.
FailPass(r, p) ==
  /\ EndPass(r, p, "error", TRUE, NoDevices)
  /\ user' = CatchHandler(user)
  /\ local' = [local EXCEPT ![r] = NoLocal]
  /\ pass' = [pass EXCEPT ![r] = NoPass]
  /\ UNCHANGED <<now, devices, session, heartbeatInterval, mounted,
                 statusWriter>>


\* StartPass without the return of lines 32-34: a pass that finds the
\* summary offline goes on to the registry.
StartPass_NoEarlyReturn(r) ==
  /\ pc[r] = "idle"
  /\ mounted[r]
  /\ LET p == [start |-> [devices |-> devices, status |-> user.status,
                          deviceCount |-> user.deviceCount,
                          lastActive |-> user.lastActive, now |-> now],
               quiet |-> TRUE, failed |-> FALSE,
               afterPass |-> done.valid,
               prevClean |-> done.valid /\ done.quiet /\ ~done.failed,
               refreshed |-> FALSE,
               prevRefreshed |-> done.valid /\ done.refreshed]
     IN \E ok \in BOOLEAN :
          IF ~ok THEN FailPass(r, p)
          ELSE /\ pc' = [pc EXCEPT ![r] = "getDocs"]
               /\ local' = [local EXCEPT ![r].lastActive = user.lastActive]
               /\ pass' = [pass EXCEPT ![r] = p]
               /\ done' = NoDone
               /\ UNCHANGED <<now, user, devices, session, heartbeatInterval,
                              mounted, statusWriter>>

\* Lines 22-34: getDoc(userRef); return when the document says offline.
StartPass(r) ==
  /\ pc[r] = "idle"
  /\ mounted[r]
  /\ LET p == [start |-> [devices |-> devices, status |-> user.status,
                          deviceCount |-> user.deviceCount,
                          lastActive |-> user.lastActive, now |-> now],
               quiet |-> TRUE, failed |-> FALSE,
               afterPass |-> done.valid,
               prevClean |-> done.valid /\ done.quiet /\ ~done.failed,
               refreshed |-> FALSE,
               prevRefreshed |-> done.valid /\ done.refreshed]
     IN \E ok \in BOOLEAN :
          IF ~ok THEN FailPass(r, p)
          ELSE IF user.status = "offline"
          THEN /\ EndPass(r, p, "skipped", FALSE, NoDevices)
               /\ UNCHANGED <<now, user, devices, session, heartbeatInterval,
                              mounted, local, pass, statusWriter>>
          ELSE /\ pc' = [pc EXCEPT ![r] = "getDocs"]
               /\ local' = [local EXCEPT ![r].lastActive = user.lastActive]
               /\ pass' = [pass EXCEPT ![r] = p]
               /\ done' = NoDone
               /\ UNCHANGED <<now, user, devices, session, heartbeatInterval,
                              mounted, statusWriter>>

\* Lines 36-85: getDocs(devices); the empty registry and the day of
\* inactivity lead to the write of offline, else the devices are classified.
GetDocs(r) ==
  /\ pc[r] = "getDocs"
  /\ \E ok \in BOOLEAN :
       IF ~ok THEN FailPass(r, pass[r])
       ELSE
         /\ local' = [local EXCEPT ![r].devices = devices, ![r].now = now]
         /\ pc' = [pc EXCEPT ![r] =
                     IF Ids(devices) = {} \/ InactiveForADay(local[r].lastActive, now)
                     THEN "forceOffline"
                     ELSE IF staleDevices(devices, now) = {} THEN "transaction"
                     ELSE "staleUpdate"]
         /\ done' = NoDone
         /\ UNCHANGED <<now, user, devices, session, heartbeatInterval, mounted,
                        pass, statusWriter>>

\* Lines 41-46 and 63-68: updateDoc(userRef, offline), outside any transaction.
ForceOffline(r) ==
  /\ pc[r] = "forceOffline"
  /\ \E ok \in BOOLEAN :
       IF ~ok THEN FailPass(r, pass[r])
       ELSE
         /\ user' = ForcedOffline(user)
         /\ statusWriter' = "forceOffline"
         /\ EndPass(r, pass[r], "forced", FALSE, local[r].devices)
         /\ local' = [MarkDirty(local, r) EXCEPT ![r] = NoLocal]
         /\ pass' = [Disturb(pass, r) EXCEPT ![r] = NoPass]
         /\ UNCHANGED <<now, devices, session, heartbeatInterval, mounted>>

\* Lines 87-99: the writes of the stale devices, each caught on its own; a
\* write to a record that no longer exists fails.
StaleUpdate(r) ==
  /\ pc[r] = "staleUpdate"
  /\ LET stale == staleDevices(local[r].devices, local[r].now)
     IN \E ok \in SUBSET (stale \cap Ids(devices)) :
          /\ devices' = StaleDeviceUpdate(devices, ok, local[r].now)
          /\ pass' = [(IF ok = {} THEN pass ELSE Disturb(pass, r))
                        EXCEPT ![r].failed = @ \/ ok # stale,
                               ![r].refreshed = ok # {}]
  /\ pc' = [pc EXCEPT ![r] = "transaction"]
  /\ done' = NoDone
  /\ UNCHANGED <<now, user, session, heartbeatInterval, mounted, local,
                 statusWriter>>

\* Lines 103-144: the transaction function reads the user document through
\* the transaction and the registry with a plain getDocs.
TransactionRead(r) ==
  /\ pc[r] = "transaction"
  /\ \E ok \in BOOLEAN :
       IF ~ok THEN FailPass(r, pass[r])
       ELSE
         /\ local' = [local EXCEPT ![r].currentDevices = devices,
                                    ![r].txNow = now, ![r].dirty = FALSE]
         /\ pc' = [pc EXCEPT ![r] = "commit"]
         /\ done' = NoDone
         /\ UNCHANGED <<now, user, devices, session, heartbeatInterval, mounted,
                        pass, statusWriter>>

\* The commit of the transaction.  The store rejects it when the user
\* document changed since the transaction read it; runTransaction then runs
\* the function again, or gives up when its attempts are used up.  The user
\* document a commit writes from is therefore the one in the store.
TransactionCommit(r) ==
  /\ pc[r] = "commit"
  /\ \E ok \in BOOLEAN :
       IF local[r].dirty /\ ok
       THEN /\ pc' = [pc EXCEPT ![r] = "transaction"]
            /\ local' = [local EXCEPT ![r].currentDevices = NoDevices,
                                       ![r].txNow = 0, ![r].dirty = FALSE]
            /\ done' = NoDone
            /\ UNCHANGED <<now, user, devices, session, heartbeatInterval, mounted,
                           pass, statusWriter>>
       ELSE IF ~ok THEN FailPass(r, pass[r])
       ELSE
         /\ user' = TransactionUpdate(user, local[r].currentDevices, local[r].txNow)
         /\ statusWriter' = "transaction"
         /\ EndPass(r, pass[r], "resolved", FALSE, local[r].currentDevices)
         /\ local' = [MarkDirty(local, r) EXCEPT ![r] = NoLocal]
         /\ pass' = [Disturb(pass, r) EXCEPT ![r] = NoPass]
         /\ UNCHANGED <<now, devices, session, heartbeatInterval, mounted>>

\* ------------------------------------------------------------------- Next

\* Neither the registry listener nor usePresence nor PresenceManager takes
\* part.
NoListenerNoHook == UNCHANGED <<listenerVars, hookVars, managerVars, endpointVars>>

\* No pass is running.
Quiescent == \A r \in Resolvers : pc[r] = "idle"

\* Spec: the passes run one at a time and nothing else happens while a pass
\* runs: what the operations do to a store that nobody else touches meanwhile.
Next ==
  \/ Quiescent /\ Tick /\ NoListenerNoHook
  \/ \E s \in Sessions : Quiescent /\ SetupPresence(s) /\ NoListenerNoHook
  \/ \E s \in Sessions : Quiescent /\ Heartbeat(s) /\ NoListenerNoHook
  \/ \E s \in Sessions : Quiescent /\ BeforeUnload(s) /\ NoListenerNoHook
  \/ \E s \in Sessions : Quiescent /\ StopPresence(s) /\ NoListenerNoHook
  \/ Quiescent /\ SignOut /\ NoListenerNoHook
  \/ \E r \in Resolvers : Quiescent /\ Unmount(r) /\ NoListenerNoHook
  \/ \E r \in Resolvers : Quiescent /\ StartPass(r) /\ NoListenerNoHook
  \/ \E r \in Resolvers : GetDocs(r) /\ NoListenerNoHook
  \/ \E r \in Resolvers : ForceOffline(r) /\ NoListenerNoHook
  \/ \E r \in Resolvers : StaleUpdate(r) /\ NoListenerNoHook
  \/ \E r \in Resolvers : TransactionRead(r) /\ NoListenerNoHook
  \/ \E r \in Resolvers : TransactionCommit(r) /\ NoListenerNoHook

Spec == Init /\ [][Next]_vars

\* SpecRace: the steps of the passes of the two tabs interleave with each
\* other, with session starts, with heartbeats and with the clock.
RaceEndTime == StartTime + OFFLINE_THRESHOLD

NextRace ==
  \/ now < RaceEndTime /\ Tick /\ NoListenerNoHook
  \/ \E s \in Sessions : SetupPresence(s) /\ NoListenerNoHook
  \/ \E s \in Sessions : Heartbeat(s) /\ NoListenerNoHook
  \/ \E r \in Resolvers : StartPass(r) /\ NoListenerNoHook
  \/ \E r \in Resolvers : GetDocs(r) /\ NoListenerNoHook
  \/ \E r \in Resolvers : ForceOffline(r) /\ NoListenerNoHook
  \/ \E r \in Resolvers : StaleUpdate(r) /\ NoListenerNoHook
  \/ \E r \in Resolvers : TransactionRead(r) /\ NoListenerNoHook
  \/ \E r \in Resolvers : TransactionCommit(r) /\ NoListenerNoHook

SpecRace == Init /\ [][NextRace]_vars

\* ------------------------- use-online-status.ts: the registry listener

\* The store tells the listener of every mounted resolver of a step that
\* changed the registry.  (The first snapshot, which reports the registry as
\* it is when the listener is registered, has been delivered.)
Notify ==
  snapshot' = [r \in Resolvers |->
                 snapshot[r] \/ (mounted[r] /\ devices' # devices)]

\* A step of Spec in the presence of the listeners.
Listened == Notify /\ UNCHANGED <<hookVars, managerVars, endpointVars>>

\* Lines 187-192: the callback of onSnapshot gets the registry as it is now
\* and starts a pass unless the snapshot is empty.
OnSnapshot(r) ==
  /\ snapshot[r]
  /\ mounted[r]
  /\ snapshot' = [snapshot EXCEPT ![r] = FALSE]
  /\ IF Ids(devices) # {}
     THEN StartPass(r)
     ELSE /\ done' = NoDone
          /\ UNCHANGED <<now, user, devices, session, heartbeatInterval,
                         mounted, pc, local, pass, statusWriter>>

\* SpecListener: Spec with the registry listener.  A pass is started by the
\* interval (StartPass) or by the listener (OnSnapshot).
NextListener ==
  \/ now < RaceEndTime /\ Quiescent /\ Tick /\ Listened
  \/ \E s \in Sessions : Quiescent /\ SetupPresence(s) /\ Listened
  \/ \E s \in Sessions : Quiescent /\ Heartbeat(s) /\ Listened
  \/ \E s \in Sessions : Quiescent /\ StopPresence(s) /\ Listened
  \/ \E r \in Resolvers : Quiescent /\ Unmount(r) /\ Listened
  \/ \E r \in Resolvers : Quiescent /\ StartPass(r) /\ Listened
  \/ \E r \in Resolvers : GetDocs(r) /\ Listened
  \/ \E r \in Resolvers : ForceOffline(r) /\ Listened
  \/ \E r \in Resolvers : StaleUpdate(r) /\ Listened
  \/ \E r \in Resolvers : TransactionRead(r) /\ Listened
  \/ \E r \in Resolvers : TransactionCommit(r) /\ Listened
  \/ \E r \in Resolvers :
       Quiescent /\ OnSnapshot(r) /\ UNCHANGED <<hookVars, managerVars, endpointVars>>

SpecListener == Init /\ [][NextListener]_vars

\* ------------------------------------------- use-presence.ts: usePresence

\* The effect runs, on mount with a user and after the cleanup that a change
\* of the user id brings: setupPresence is called (call s, whose deviceId s
\* stands for) and its promise is pending.
UsePresenceEffect(s) ==
  /\ hook.effect = "none"
  /\ promise[s] = "none"
  /\ hook' = [hook EXCEPT !.effect = s]
  /\ promise' = [promise EXCEPT ![s] = "pending"]
  /\ UNCHANGED <<coreVars, listenerVars, managerVars, endpointVars>>

\* setupPresence returns its stop function: the transaction has committed
\* and the timer is armed.  The then callback, cleanupRef.current = cleanup,
\* runs as soon as the promise is fulfilled, before any other event.
SetupResolves(s) ==
  /\ promise[s] = "pending"
  /\ SetupPresence(s)
  /\ hook' = [hook EXCEPT !.cleanupRef = s]
  /\ promise' = [promise EXCEPT ![s] = "settled"]
  /\ UNCHANGED <<listenerVars, managerVars, endpointVars>>

\* The transaction of setupPresence fails: nothing is written, no timer is
\* armed, the promise rejects and the catch callback logs.
SetupRejects(s) ==
  /\ promise[s] = "pending"
  /\ promise' = [promise EXCEPT ![s] = "rejected"]
  /\ UNCHANGED <<hook, coreVars, listenerVars, managerVars, endpointVars>>

\* The cleanup of the effect, on unmount and on a change of the user id:
\* cleanupRef.current?.(), the stop function of whichever call cleanupRef
\* holds.
EffectCleanup ==
  /\ hook.effect # "none"
  /\ hook' = [hook EXCEPT !.effect = "none"]
  /\ IF hook.cleanupRef = "none"
     THEN UNCHANGED coreVars
     ELSE /\ session' = [session EXCEPT ![hook.cleanupRef] = "stopped"]
          /\ \E ok \in BOOLEAN : cleanup(hook.cleanupRef, ok)
  /\ UNCHANGED <<promise, listenerVars, managerVars, endpointVars>>

\* SpecHook: one component with usePresence: its effect runs and is cleaned
\* up (mount, changes of the user id, unmount) while the setupPresence calls
\* resolve, the heartbeat timers tick and the clock advances.
NextHook ==
  \/ Tick /\ NoListenerNoHook
  \/ \E s \in Sessions : Heartbeat(s) /\ NoListenerNoHook
  \/ \E s \in Sessions : UsePresenceEffect(s)
  \/ \E s \in Sessions : SetupResolves(s)
  \/ \E s \in Sessions : SetupRejects(s)
  \/ EffectCleanup

SpecHook == Init /\ [][NextHook]_vars

\* ------------------------------------ presence-final.ts: PresenceManager

\* In this specification the clock advances by DEBOUNCE_DELAY and the
\* periods of the heartbeat timer and of the retry delay are not measured: an
\* armed timer may tick at any moment.  One call of each asynchronous method
\* is in flight at a time.  A write issued while the connection is down is
\* held back: it succeeds once the connection is up, or fails.

ManagerEndTime == StartTime + MaxManagerTicks * DEBOUNCE_DELAY

ManagerTick ==
  /\ now < ManagerEndTime
  /\ now' = now + DEBOUNCE_DELAY
  /\ UNCHANGED <<sessionVars, listenerVars, hookVars, managerVars, endpointVars>>

\* Everything PresenceManager does not touch.
ManagerFrame == UNCHANGED <<coreVars, listenerVars, hookVars, endpointVars>>

startHeartbeat(m) == [m EXCEPT !.heartbeatInterval = TRUE]

stopHeartbeat(m) == [m EXCEPT !.heartbeatInterval = FALSE]

\* set(presenceRef, {state, ...}) for user u, when it reaches the server.
SetPresence(sr, u, state, ok) ==
  IF ok /\ u # "none" THEN [sr EXCEPT ![u].state = state] ELSE sr

\* updateDoc(userDocRef, {status, ...}) for user u, when it is applied.
UpdateUserDoc(us, u, state, ok) ==
  IF ok /\ u # "none" THEN [us EXCEPT ![u] = state] ELSE us

\* The fields after cleanup(): cleanupFn has run (stopHeartbeat) and is
\* dropped, the stale-presence timer is cleared, uid and the references
\* are null.
CleanedUp(m) ==
  [m EXCEPT !.cleanupFn = FALSE, !.cleanupInterval = FALSE,
            !.uid = "none", !.presenceRef = "none", !.userDocRef = "none",
            !.heartbeatInterval = FALSE]

\* cleanup() runs cleanupFn if there is one: it unsubscribes the connection
\* listener, removes the document and window listeners and sends the two
\* offline writes without awaiting them.  rt, fs: whether the write to the
\* realtime database and the write to the document store are applied.
PresenceAfterCleanup(sr, m, rt) ==
  SetPresence(sr, m.presenceRef, "offline", m.cleanupFn /\ rt /\ connected)

UsersAfterCleanup(us, m, fs) ==
  UpdateUserDoc(us, m.userDocRef, "offline", m.cleanupFn /\ fs /\ connected)

ListenersAfterCleanup(m) == IF m.cleanupFn THEN {} ELSE listeners

\* The outcomes of the offline writes of cleanupFn: when there is no
\* cleanupFn nothing is written and one outcome stands for all.
Outcomes(m) == IF m.cleanupFn THEN BOOLEAN \X BOOLEAN ELSE {<<FALSE, FALSE>>}

\* The outcomes of a pair of awaited writes: both applied, or one or none
\* of them (the call then takes its catch path); while the connection is
\* down none is applied.
WriteOutcomes ==
  IF connected THEN BOOLEAN \X BOOLEAN ELSE {<<FALSE, FALSE>>}

\* auth-service.ts signInWithEmail / signInWithGoogle: the user is signed in
\* and setupPresence(uid) is awaited, which is initialize(uid) up to its
\* await: cleanup(), uid and the references are set, the registration of the
\* on-disconnect hook is sent.
Login(u) ==
  /\ currentUser = "none"
  /\ call.initialize = "idle"
  /\ currentUser' = u
  /\ manager' = [CleanedUp(manager) EXCEPT !.uid = u, !.presenceRef = u,
                                           !.userDocRef = u]
  /\ listeners' = ListenersAfterCleanup(manager)
  /\ connNotify' = (connNotify /\ ~manager.cleanupFn)
  /\ \E o \in Outcomes(manager) :
       /\ statusRef' = PresenceAfterCleanup(statusRef, manager, o[1])
       /\ users' = UsersAfterCleanup(users, manager, o[2])
  /\ call' = [call EXCEPT !.initialize = u]
  /\ UNCHANGED <<debounced, connected, visibilityState>>
  /\ ManagerFrame

\* initialize after its await (lines 246-335): the server holds the hook; the
\* connection listener is registered (it is called with the current value
\* at once), the document and window listeners are added, cleanupFn is set.
\* Nothing here looks at uid or the references again.
HookRegistered ==
  /\ call.initialize # "idle"
  /\ connected
  /\ statusRef' = [statusRef EXCEPT ![call.initialize].onDisconnect = TRUE]
  /\ listeners' = listeners \cup {"connection", "visibilitychange",
                                  "beforeunload", "pagehide"}
  /\ connNotify' = TRUE
  /\ manager' = [manager EXCEPT !.cleanupFn = TRUE]
  /\ call' = [call EXCEPT !.initialize = "idle"]
  /\ UNCHANGED <<debounced, connected, visibilityState, users, currentUser>>
  /\ ManagerFrame

\* The registration of the hook is rejected: initialize logs and rethrows;
\* uid and the references stay set, there is no cleanupFn.
HookRejected ==
  /\ call.initialize # "idle"
  /\ call' = [call EXCEPT !.initialize = "idle"]
  /\ UNCHANGED <<manager, listeners, debounced, connected, connNotify,
                 visibilityState, statusRef, users, currentUser>>
  /\ ManagerFrame

\* The connection drops: the server runs the pending hooks, each once.
ConnectionLost ==
  /\ connected
  /\ connected' = FALSE
  /\ statusRef' = [u \in Users |->
                     IF statusRef[u].onDisconnect
                     THEN [state |-> "offline", onDisconnect |-> FALSE]
                     ELSE statusRef[u]]
  /\ connNotify' = ("connection" \in listeners)
  /\ UNCHANGED <<manager, listeners, debounced, call, visibilityState, users,
                 currentUser>>
  /\ ManagerFrame

ConnectionRegained ==
  /\ ~connected
  /\ connected' = TRUE
  /\ connNotify' = ("connection" \in listeners)
  /\ UNCHANGED <<manager, listeners, debounced, call, visibilityState,
                 statusRef, users, currentUser>>
  /\ ManagerFrame

\* The callback of the connection listener (lines 247-277) up to its await:
\* on false, stopHeartbeat; on true, the two online writes are sent, unless
\* the references are null (the throw is caught).
ConnectionCallback ==
  /\ connNotify
  /\ "connection" \in listeners
  /\ connNotify' = FALSE
  /\ IF ~connected
     THEN /\ manager' = stopHeartbeat(manager)
          /\ UNCHANGED call
     ELSE IF manager.presenceRef = "none" \/ manager.userDocRef = "none"
     THEN UNCHANGED <<manager, call>>
     ELSE /\ call.connection = "idle"
          /\ call' = [call EXCEPT !.connection = manager.presenceRef]
          /\ UNCHANGED manager
  /\ UNCHANGED <<listeners, debounced, connected, visibilityState, statusRef,
                 users, currentUser>>
  /\ ManagerFrame

\* The writes of the connection callback settle: when both are applied,
\* startHeartbeat(); else the catch block logs.
ConnectionWriteDone ==
  /\ call.connection # "idle"
  /\ \E o \in WriteOutcomes :
       /\ statusRef' = SetPresence(statusRef, call.connection, "online", o[1])
       /\ users' = UpdateUserDoc(users, call.connection, "online", o[2])
       /\ manager' = IF o[1] /\ o[2] THEN startHeartbeat(manager) ELSE manager
  /\ call' = [call EXCEPT !.connection = "idle"]
  /\ UNCHANGED <<listeners, debounced, connected, connNotify, visibilityState,
                 currentUser>>
  /\ ManagerFrame

\* A tick of the heartbeat timer: sendHeartbeat calls the debounced function
\* unless uid is null or isReconnecting is set.
SendHeartbeat ==
  /\ manager.heartbeatInterval
  /\ manager.uid # "none" /\ ~manager.isReconnecting
  /\ debounced' = [due |-> now + DEBOUNCE_DELAY, state |-> "online",
                   source |-> "heartbeat"]
  /\ UNCHANGED <<manager, listeners, call, connected, connNotify,
                 visibilityState, statusRef, users, currentUser>>
  /\ ManagerFrame

\* The visibilitychange event.  handleVisibilityChange (when registered, the
\* references set and isReconnecting clear) calls the debounced function,
\* awaits what it returns, the promise of the last _updatePresenceState the
\* debounce timer started, and then starts or stops the heartbeat timer.
VisibilityChange ==
  /\ visibilityState' = IF visibilityState = "visible" THEN "hidden" ELSE "visible"
  /\ IF /\ "visibilitychange" \in listeners
        /\ manager.presenceRef # "none" /\ manager.userDocRef # "none"
        /\ ~manager.isReconnecting
     THEN /\ debounced' = [due |-> now + DEBOUNCE_DELAY,
                           state |-> IF visibilityState' = "visible"
                                     THEN "online" ELSE "offline",
                           source |-> "visibility"]
          /\ IF call.update.pc = "idle"
             THEN /\ manager' = IF visibilityState' = "visible"
                                THEN startHeartbeat(manager)
                                ELSE stopHeartbeat(manager)
                  /\ call' = [call EXCEPT !.visibility = "idle"]
             ELSE /\ call' = [call EXCEPT !.visibility = visibilityState']
                  /\ UNCHANGED manager
     ELSE UNCHANGED <<manager, debounced, call>>
  /\ UNCHANGED <<listeners, connected, connNotify, statusRef, users, currentUser>>
  /\ ManagerFrame

\* handleVisibilityChange after its await (lines 182-186).
VisibilityContinue ==
  /\ call.visibility # "idle"
  /\ call.update.pc = "idle"
  /\ manager' = IF call.visibility = "visible"
                THEN startHeartbeat(manager) ELSE stopHeartbeat(manager)
  /\ call' = [call EXCEPT !.visibility = "idle"]
  /\ UNCHANGED <<listeners, debounced, connected, connNotify, visibilityState,
                 statusRef, users, currentUser>>
  /\ ManagerFrame

\* The guards of _updatePresenceState (lines 95-100): TRUE when the call
\* goes on to write.
UpdateGoesAhead(m, force, t) ==
  /\ m.presenceRef # "none" /\ m.userDocRef # "none"
  /\ force \/ ~m.isReconnecting
  /\ force \/ ~(t - m.lastSuccessfulUpdate < DEBOUNCE_DELAY)

\* The debounce timer expires, DEBOUNCE_DELAY after the last call of the
\* debounced function: _updatePresenceState(state) runs up to its await.
DebouncedFires ==
  /\ debounced.due # 0
  /\ now >= debounced.due
  /\ call.update.pc = "idle"
  /\ debounced' = NoDebounced
  /\ call' = [call EXCEPT !.update =
                IF UpdateGoesAhead(manager, FALSE, now)
                THEN [pc |-> "write", state |-> debounced.state,
                      uid |-> manager.presenceRef]
                ELSE NoUpdate]
  /\ UNCHANGED <<manager, listeners, connected, connNotify, visibilityState,
                 statusRef, users, currentUser>>
  /\ ManagerFrame


\* UpdateWriteDone with a handleUpdateError that has no limit: every failure
\* is retried.
UpdateWriteDone_RetriesForever ==
  /\ call.update.pc = "write"
  /\ \E o \in WriteOutcomes :
       LET sr == SetPresence(statusRef, call.update.uid, call.update.state, o[1])
           us == UpdateUserDoc(users, call.update.uid, call.update.state, o[2])
       IN
       /\ statusRef' = sr
       /\ users' = us
       /\ IF o[1] /\ o[2]
          THEN /\ manager' = [manager EXCEPT !.lastSuccessfulUpdate = now,
                                             !.retryCount = 0]
               /\ call' = [call EXCEPT !.update = NoUpdate]
          ELSE /\ manager' = [manager EXCEPT !.retryCount = @ + 1]
               /\ call' = [call EXCEPT !.update.pc = "retryWait"]
  /\ UNCHANGED <<listeners, connNotify, debounced, connected, visibilityState,
                 currentUser>>
  /\ ManagerFrame

\* The writes of _updatePresenceState settle.  Both applied: lines 121-122.
\* Else handleUpdateError: below MAX_RETRY_ATTEMPTS retryCount is incremented
\* and the retry delay starts; at MAX_RETRY_ATTEMPTS reconnect() runs, which
\* is cleanup(), then `if (this.uid)` on the uid cleanup() has just set to
\* null, then isReconnecting = false and retryCount = 0.
UpdateWriteDone ==
  /\ call.update.pc = "write"
  /\ \E o \in WriteOutcomes :
       LET sr == SetPresence(statusRef, call.update.uid, call.update.state, o[1])
           us == UpdateUserDoc(users, call.update.uid, call.update.state, o[2])
       IN
       IF o[1] /\ o[2]
       THEN /\ statusRef' = sr
            /\ users' = us
            /\ manager' = [manager EXCEPT !.lastSuccessfulUpdate = now,
                                          !.retryCount = 0]
            /\ call' = [call EXCEPT !.update = NoUpdate]
            /\ UNCHANGED <<listeners, connNotify>>
       ELSE IF manager.retryCount >= MAX_RETRY_ATTEMPTS
       THEN /\ \E c \in Outcomes(manager) :
                 /\ statusRef' = PresenceAfterCleanup(sr, manager, c[1])
                 /\ users' = UsersAfterCleanup(us, manager, c[2])
            /\ listeners' = ListenersAfterCleanup(manager)
            /\ connNotify' = (connNotify /\ ~manager.cleanupFn)
            /\ manager' = [CleanedUp(manager) EXCEPT !.isReconnecting = FALSE,
                                                     !.retryCount = 0]
            /\ call' = [call EXCEPT !.update = NoUpdate]
       ELSE /\ statusRef' = sr
            /\ users' = us
            /\ manager' = [manager EXCEPT !.retryCount = @ + 1]
            /\ call' = [call EXCEPT !.update.pc = "retryWait"]
            /\ UNCHANGED <<listeners, connNotify>>
  /\ UNCHANGED <<debounced, connected, visibilityState, currentUser>>
  /\ ManagerFrame

\* The retry delay is over: _updatePresenceState(state, true).
RetryFires ==
  /\ call.update.pc = "retryWait"
  /\ call' = [call EXCEPT !.update =
                IF UpdateGoesAhead(manager, TRUE, now)
                THEN [pc |-> "write", state |-> call.update.state,
                      uid |-> manager.presenceRef]
                ELSE NoUpdate]
  /\ UNCHANGED <<manager, listeners, debounced, connected, connNotify,
                 visibilityState, statusRef, users, currentUser>>
  /\ ManagerFrame

\* The function setupPresence returned is called: cleanup(), on a manager
\* that is initialized.
ManagerCleanup ==
  /\ manager.cleanupFn
  /\ manager' = CleanedUp(manager)
  /\ listeners' = ListenersAfterCleanup(manager)
  /\ connNotify' = FALSE
  /\ \E o \in Outcomes(manager) :
       /\ statusRef' = PresenceAfterCleanup(statusRef, manager, o[1])
       /\ users' = UsersAfterCleanup(users, manager, o[2])
  /\ UNCHANGED <<debounced, call, connected, visibilityState, currentUser>>
  /\ ManagerFrame

\* setOfflineStatus(uid) is setOffline() up to its await: return when a
\* reference is null; else stopHeartbeat() and the two offline writes.
SetOfflineStatus(u) ==
  /\ call.setOffline.pc \in {"idle", "returned"}
  /\ IF manager.presenceRef = "none" \/ manager.userDocRef = "none"
     THEN /\ call' = [call EXCEPT !.setOffline =
                        [pc |-> "returned", arg |-> u, uid |-> "none",
                         failed |-> FALSE]]
          /\ UNCHANGED manager
     ELSE /\ call' = [call EXCEPT !.setOffline =
                        [pc |-> "write", arg |-> u, uid |-> manager.presenceRef,
                         failed |-> FALSE]]
          /\ manager' = stopHeartbeat(manager)
  /\ UNCHANGED <<listeners, debounced, connected, connNotify, visibilityState,
                 statusRef, users, currentUser>>
  /\ ManagerFrame

\* The writes of setOffline settle (a failure is caught and logged) and the
\* call returns.
SetOfflineReturns ==
  /\ call.setOffline.pc = "write"
  /\ \E o \in WriteOutcomes :
       /\ statusRef' = SetPresence(statusRef, call.setOffline.uid, "offline", o[1])
       /\ users' = UpdateUserDoc(users, call.setOffline.uid, "offline", o[2])
       /\ call' = [call EXCEPT !.setOffline.pc = "returned",
                               !.setOffline.failed = ~(o[1] /\ o[2])]
  /\ UNCHANGED <<manager, listeners, debounced, connected, connNotify,
                 visibilityState, currentUser>>
  /\ ManagerFrame

\* auth-service.ts signOut: updateDoc(users/{uid}, {status: 'offline'}) for
\* auth.currentUser, then the sign-out; when the write fails the error is
\* rethrown and the user stays signed in.  PresenceManager is not called.
AuthServiceSignOut ==
  /\ currentUser # "none"
  /\ \E ok \in BOOLEAN :
       /\ users' = UpdateUserDoc(users, currentUser, "offline", ok)
       /\ currentUser' = IF ok THEN "none" ELSE currentUser
  /\ UNCHANGED <<manager, listeners, debounced, call, connected, connNotify,
                 visibilityState, statusRef>>
  /\ ManagerFrame

\* PresenceManager at the start: Init with the user document of the
\* sessions fixed.
InitManager == Init /\ user.lastActive = 0

\* SpecManager: one client with PresenceManager, from the login on: the
\* connection comes and goes, the tab is hidden and shown, the timers tick.
NextManager ==
  \/ ManagerTick
  \/ \E u \in Users : Login(u)
  \/ HookRegistered
  \/ HookRejected
  \/ ConnectionLost
  \/ ConnectionRegained
  \/ ConnectionCallback
  \/ ConnectionWriteDone
  \/ SendHeartbeat
  \/ VisibilityChange
  \/ VisibilityContinue
  \/ DebouncedFires
  \/ UpdateWriteDone
  \/ RetryFires
  \/ ManagerCleanup

SpecManager == InitManager /\ [][NextManager]_vars

\* SpecLogout: the client with PresenceManager while the user logs in and
\* out and setOfflineStatus is called; the tab stays visible.
NextLogout ==
  \/ ManagerTick
  \/ \E u \in Users : Login(u)
  \/ HookRegistered
  \/ HookRejected
  \/ ConnectionLost
  \/ ConnectionRegained
  \/ ConnectionCallback
  \/ ConnectionWriteDone
  \/ SendHeartbeat
  \/ DebouncedFires
  \/ UpdateWriteDone
  \/ RetryFires
  \/ ManagerCleanup
  \/ \E u \in Users : SetOfflineStatus(u)
  \/ SetOfflineReturns
  \/ AuthServiceSignOut

SpecLogout == InitManager /\ [][NextLogout]_vars


\* ------------------ scripts/migrate-devices-to-subcollection.js: migration

\* The ids of the entries of the `devices` array of the user document that
\* the migration script copies into the registry.
Migrated == {"legacy1", "legacy2"}

\* One deviceRef.set({...d, id, loggedInAt}, {merge: true}) of the script:
\* the record d appears in the registry with no lastSeen field.  The user
\* document is not written.
Migrate(d) ==
  /\ d \notin Ids(devices)
  /\ devices' = [e \in Ids(devices) \cup {d} |-> IF e = d THEN 0 ELSE devices[e]]
  /\ pass' = Disturb(pass, "env")
  /\ done' = NoDone
  /\ UNCHANGED <<now, user, session, heartbeatInterval, mounted, pc, local,
                 statusWriter>>

\* SpecMigrated: one tab (its session and its resolver) and the migration
\* script; the passes run alone, as in Spec.
MigratedTab == "tabA"

NextMigrated ==
  \/ Quiescent /\ now < RaceEndTime /\ Tick /\ NoListenerNoHook
  \/ Quiescent /\ SetupPresence(MigratedTab) /\ NoListenerNoHook
  \/ Quiescent /\ Heartbeat(MigratedTab) /\ NoListenerNoHook
  \/ Quiescent /\ StopPresence(MigratedTab) /\ NoListenerNoHook
  \/ \E d \in Migrated : Quiescent /\ Migrate(d) /\ NoListenerNoHook
  \/ Quiescent /\ StartPass(MigratedTab) /\ NoListenerNoHook
  \/ GetDocs(MigratedTab) /\ NoListenerNoHook
  \/ ForceOffline(MigratedTab) /\ NoListenerNoHook
  \/ StaleUpdate(MigratedTab) /\ NoListenerNoHook
  \/ TransactionRead(MigratedTab) /\ NoListenerNoHook
  \/ TransactionCommit(MigratedTab) /\ NoListenerNoHook

SpecMigrated == Init /\ [][NextMigrated]_vars


\* --------------------------- app/api/device/route.ts: device registration

\* The clock advances by one window: a record written at t is current at
\* t + windowMs (`now > record.resetTime` is false) and expired after that.
EndpointEndTime == StartTime + MaxEndpointTicks * windowMs

EndpointTick ==
  /\ now < EndpointEndTime
  /\ now' = now + windowMs
  /\ UNCHANGED <<sessionVars, listenerVars, hookVars, managerVars, endpointVars>>

\* isDeviceRegistrationRateLimited(identifier) at time t on the Map store:
\* the value it returns and the Map it leaves.
isDeviceRegistrationRateLimited(store, identifier, t) ==
  LET record == store[identifier]
  IN
  IF record = NoRecord \/ t > record.resetTime
  THEN [limited |-> FALSE,
        store |-> [store EXCEPT ![identifier] =
                     [count |-> 1, resetTime |-> t + windowMs]]]
  ELSE IF record.count >= maxRequests
  THEN [limited |-> TRUE, store |-> store]
  ELSE [limited |-> FALSE,
        store |-> [store EXCEPT ![identifier].count = @ + 1]]

\* POST with a token that verifies as user u, from address a: lines 160-169,
\* `limited(userKey) || limited(ipKey)` evaluated from left to right, the
\* second call only when the first returned false.
Post(u, a) ==
  LET first == isDeviceRegistrationRateLimited(deviceRateLimitStore, userKey(u), now)
      second == isDeviceRegistrationRateLimited(first.store, ipKey(a), now)
  IN
  /\ deviceRateLimitStore' = IF first.limited THEN first.store ELSE second.store
  /\ response' = [status |-> IF first.limited \/ second.limited THEN 429 ELSE 200,
                  user |-> u, ip |-> a]
  /\ UNCHANGED <<coreVars, listenerVars, hookVars, managerVars>>

\* POST with a body or a token that is rejected (lines 66-71 and 133-158):
\* the handler returns before it reaches the rate limiter.
PostRejected(a) ==
  /\ \E st \in {400, 401} :
       response' = [status |-> st, user |-> "none", ip |-> a]
  /\ UNCHANGED <<deviceRateLimitStore, coreVars, listenerVars, hookVars,
                 managerVars>>

\* SpecEndpoint: requests of any mix of users and addresses, and the clock.
NextEndpoint ==
  \/ EndpointTick
  \/ \E u \in Callers, a \in Addresses : Post(u, a)
  \/ \E a \in Addresses : PostRejected(a)

SpecEndpoint == Init /\ [][NextEndpoint]_vars

\* ================================================================ claims

\* The newest lastSeen of a registry.
Newest(reg) == Max({reg[d] : d \in Ids(reg)})

\* A pass has just ended that ran alone (no step of anybody else and no
\* clock tick between its first read and its end) and in which no store
\* operation failed.
CleanPassEnded == done.valid /\ done.quiet /\ ~done.failed

\* C1: the summary a status transaction commits is computed from the device
\* registry as it stands when the transaction commits: the registry the
\* transaction read is the registry in the store at the commit.
C1_SummaryFromRegistryAtCommit ==
  (done.valid /\ done.outcome = "resolved") => done.basis = devices

\* C2: the status of the summary was last written by a derivation from the
\* device records (a resolver write), never directly by a client operation.
C2_StatusOnlyDerived ==
  statusWriter \in {"none", "transaction", "forceOffline"}

\* C3: after a pass over a non-empty registry whose newest lastSeen is at
\* least OFFLINE_THRESHOLD old, the summary is offline with deviceCount 0
\* (stated for the passes that get as far as the registry: the summary was
\* not offline before).
C3_StaleRegistryResolvesOffline ==
  (/\ CleanPassEnded
   /\ done.start.status # "offline"
   /\ Ids(done.start.devices) # {}
   /\ done.start.now - Newest(done.start.devices) >= OFFLINE_THRESHOLD)
    => (user.status = "offline" /\ user.deviceCount = 0)

\* C4: after a pass over a registry whose newest lastSeen is less than
\* DEVICE_STALENESS_THRESHOLD old, the summary is online and deviceCount is
\* the number of devices that were active, whatever the summary was before.
C4_FreshRegistryResolvesOnline ==
  (/\ CleanPassEnded
   /\ Ids(done.start.devices) # {}
   /\ done.start.now - Newest(done.start.devices) < DEVICE_STALENESS_THRESHOLD)
    => /\ user.status = "online"
       /\ user.deviceCount =
            Cardinality(activeDevices(done.start.devices, done.start.now))

\* C5: after a pass over a registry whose newest lastSeen is at least
\* DEVICE_STALENESS_THRESHOLD and less than OFFLINE_THRESHOLD old, the summary
\* is away and deviceCount is the number of inactive devices.
C5_AgingRegistryResolvesAway ==
  (/\ CleanPassEnded
   /\ Ids(done.start.devices) # {}
   /\ done.start.now - Newest(done.start.devices) >= DEVICE_STALENESS_THRESHOLD
   /\ done.start.now - Newest(done.start.devices) < OFFLINE_THRESHOLD)
    => /\ user.status = "away"
       /\ user.deviceCount =
            Cardinality(inactiveDevices(done.start.devices, done.start.now))

\* C6: after a pass over the empty registry the summary is offline with
\* deviceCount 0, whatever it held before.
C6_EmptyRegistryResolvesOffline ==
  (CleanPassEnded /\ Ids(done.start.devices) = {})
    => (user.status = "offline" /\ user.deviceCount = 0)

\* C7: after a pass over a registry that holds an active device and a device
\* whose lastSeen is OFFLINE_THRESHOLD or more old, the summary is online and
\* deviceCount counts the devices that were active when the pass began only.
C7_MixedRegistryCountsActiveOnly ==
  (/\ CleanPassEnded
   /\ done.start.status # "offline"
   /\ ~InactiveForADay(done.start.lastActive, done.start.now)
   /\ activeDevices(done.start.devices, done.start.now) # {}
   /\ staleDevices(done.start.devices, done.start.now) # {})
    => /\ user.status = "online"
       /\ user.deviceCount =
            Cardinality(activeDevices(done.start.devices, done.start.now))

C9_OfflineWithinOneInterval ==
  (/\ CleanPassEnded
   /\ Ids(devices) # {}
   /\ \A d \in Ids(devices) :
        /\ heartbeatInterval[d] # 0
        /\ now - (heartbeatInterval[d] - HEARTBEAT_INTERVAL)
             >= OFFLINE_THRESHOLD + CLEANUP_INTERVAL)
    => user.status = "offline"

\* C10: a pass in which a read or the transaction failed has ended (nothing
\* propagated: the tab is idle again), has left the user document as it was
\* when the pass began, and has left the interval of its tab armed.
C10_FailedPassChangesNothing ==
  (done.valid /\ done.outcome = "error")
    => /\ pc[done.tab] = "idle"
       /\ mounted[done.tab]
       /\ done.quiet =>
            user = [status |-> done.start.status,
                    deviceCount |-> done.start.deviceCount,
                    lastActive |-> done.start.lastActive]

\* C10 witness: a pass over a non-empty registry of a user who is online
\* ended in a catch block.
C10_Witness ==
  /\ done.valid /\ done.outcome = "error" /\ done.quiet
  /\ done.start.status = "online"
  /\ Ids(done.start.devices) # {}

\* A tick of the heartbeat timer of session s: the timer was armed and is
\* armed anew (or no longer armed) by a step that is not the teardown.
HeartbeatTicked(s) ==
  /\ heartbeatInterval[s] # 0
  /\ heartbeatInterval'[s] # heartbeatInterval[s]
  /\ session'[s] = session[s]

\* C12: a session owns one device record for its lifetime.  The step that
\* starts it adds one record under its own deviceId with lastSeen = now and
\* touches no other record; while the session runs its record exists; a
\* heartbeat tick writes at most lastSeen = now on that record, no other
\* record and no field of the user document; the teardown whose transaction
\* committed leaves no record of the session.
C12_SessionOwnsOneRecord ==
  /\ [](\A s \in Sessions : session[s] = "running" => s \in Ids(devices))
  /\ [][\A s \in Sessions :
          /\ (session[s] = "none" /\ session'[s] = "running")
               => /\ s \notin Ids(devices)
                  /\ devices' = [d \in Ids(devices) \cup {s} |->
                                   IF d = s THEN now ELSE devices[d]]
          /\ HeartbeatTicked(s)
               => /\ user' = user
                  /\ Ids(devices') = Ids(devices)
                  /\ \A d \in Ids(devices) :
                       \/ devices'[d] = devices[d]
                       \/ d = s /\ devices'[d] = now
          /\ (session[s] # "stopped" /\ session'[s] = "stopped" /\ user' # user)
               => s \notin Ids(devices')
       ]_vars

\* C12 witness: one session torn down and its record gone, while the other,
\* started before the last status transaction (which resolved online at an
\* earlier moment), has had a heartbeat tick at this moment: its lastSeen is
\* now and its timer is armed anew.
C12_Witness ==
  \E s, t \in Sessions :
    /\ session[s] = "stopped" /\ s \notin Ids(devices)
    /\ session[t] = "running" /\ t \in Ids(devices)
    /\ statusWriter = "transaction"
    /\ user.status = "online" /\ user.lastActive < now
    /\ devices[t] = now
    /\ heartbeatInterval[t] = now + HEARTBEAT_INTERVAL

\* C13: a heartbeat tick whose write failed (the record is as it was) leaves
\* the record and the user document unchanged, leaves the session running
\* (nothing was thrown to it) and leaves the timer armed: the next tick, one
\* HEARTBEAT_INTERVAL later, attempts the write again.
C13_FailedHeartbeatRetriesNextTick ==
  [][\A s \in Sessions :
       (HeartbeatTicked(s) /\ (s \in Ids(devices) => devices'[s] # now))
         => /\ devices' = devices
            /\ user' = user
            /\ session'[s] = session[s]
            /\ heartbeatInterval'[s] = now + HEARTBEAT_INTERVAL
    ]_vars

\* C13 witness: the timer of a running session was armed anew at this moment
\* and the record of the session does not carry this moment: the write of
\* the tick failed.
C13_Witness ==
  \E s \in Sessions :
    /\ session[s] = "running" /\ s \in Ids(devices)
    /\ heartbeatInterval[s] = now + HEARTBEAT_INTERVAL
    /\ devices[s] # now

\* C17: every write of the summary that leaves status online leaves
\* deviceCount equal to the number of device records that are active
\* (lastSeen less than DEVICE_STALENESS_THRESHOLD old) at that moment.
C17_OnlineCountIsActiveCount ==
  [][(user' # user /\ user'.status = "online")
       => user'.deviceCount = Cardinality(activeDevices(devices', now'))
    ]_vars

\* C20: whenever the listener of a mounted resolver takes delivery of a
\* change of the registry, a pass of that resolver starts in the same step
\* (it is running afterwards, or it has run and ended): also when the change
\* left the registry empty.
C20_RegistryChangeStartsPass ==
  [][\A r \in Resolvers :
       (snapshot[r] /\ ~snapshot'[r] /\ mounted[r])
         => (pc'[r] # "idle" \/ (done'.valid /\ done'.tab = r))
    ]_vars

\* C18: once the effect that made a setupPresence call has been cleaned up
\* and the promise of the call has settled, no session of that call is
\* running and no heartbeat timer of it is armed.
C18_TornDownEffectLeavesNoSession ==
  \A s \in Sessions :
    (hook.effect # s /\ promise[s] \in {"settled", "rejected"})
      => (session[s] # "running" /\ heartbeatInterval[s] = 0)

\* C11: between PresenceManager.cleanup() and the next initialize (uid is
\* null) the heartbeat timer is not armed and no listener of the manager
\* (connection, visibilitychange, beforeunload, pagehide) is registered.
C11_CleanupRemovesTimerAndListeners ==
  manager.uid = "none" => (~manager.heartbeatInterval /\ listeners = {})

\* C14: while a session is initialized for user u and the connection is
\* down, the presence record of u does not say online: the hook registered
\* by initialize has turned it to offline.
C14_DropTurnsRecordOffline ==
  \A u \in Users :
    (manager.cleanupFn /\ manager.uid = u /\ ~connected)
      => statusRef[u].state # "online"

\* C15: when setOfflineStatus(uid) returns without having found a session
\* (a reference was null), the summary of uid has status offline and the
\* heartbeat timer is not armed.
C15_SetOfflineWithoutSession ==
  [][(/\ call'.setOffline # call.setOffline
      /\ call'.setOffline.pc = "returned"
      /\ call'.setOffline.uid = "none")
       => (/\ users'[call'.setOffline.arg] = "offline"
           /\ ~manager'.heartbeatInterval)
    ]_vars

\* C16: when the debounce timer of the call that a change to visible made
\* expires, an initialized manager that is not reconnecting sends the online
\* update, however recent the last successful update is.
C16_VisibleSendsHeartbeat ==
  [][(/\ debounced.due # 0 /\ debounced'.due = 0
      /\ debounced.source = "visibility" /\ debounced.state = "online"
      /\ manager.presenceRef # "none" /\ manager.userDocRef # "none"
      /\ ~manager.isReconnecting)
       => call'.update.pc = "write"
    ]_vars

\* C19: while user u is signed out (signOut has written offline and no login
\* of u has followed), no call of _updatePresenceState on this client sends
\* an online write for u.
C19_NoOnlineWriteAfterSignOut ==
  [][\A u \in Users :
       (currentUser # u /\ currentUser' # u)
         => ~(/\ call.update.pc # "write"
              /\ call'.update.pc = "write"
              /\ call'.update.uid = u
              /\ call'.update.state = "online")
    ]_vars

\* C21: after a pass over a registry that holds only device records with no
\* lastSeen field, the summary is offline with deviceCount 0 (stated for the
\* passes that get as far as the registry: the summary was not offline
\* before).
C21_MissingLastSeenResolvesOffline ==
  (/\ CleanPassEnded
   /\ done.start.status # "offline"
   /\ Ids(done.start.devices) # {}
   /\ \A d \in Ids(done.start.devices) : done.start.devices[d] = 0)
    => (user.status = "offline" /\ user.deviceCount = 0)

\* C22: a pass whose transaction commits while a session is running whose
\* heartbeats have all succeeded (its record carries the lastSeen of its last
\* tick, or of its start, and the next tick is not yet due) leaves the
\* summary online.
C22_HeartbeatingSessionStaysOnline ==
  (/\ CleanPassEnded
   /\ done.outcome = "resolved"
   /\ \E s \in Sessions :
        /\ session[s] = "running"
        /\ s \in Ids(done.start.devices)
        /\ heartbeatInterval[s] = done.start.devices[s] + HEARTBEAT_INTERVAL
        /\ done.start.now < heartbeatInterval[s])
    => user.status = "online"

\* C23: a pass that began with the summary offline has written nothing: when
\* it has ended the user document (status, deviceCount, lastActive) and the
\* registry are what they were when it began.
C23_OfflinePassWritesNothing ==
  (done.valid /\ done.start.status = "offline")
    => /\ user = [status |-> done.start.status,
                  deviceCount |-> done.start.deviceCount,
                  lastActive |-> done.start.lastActive]
       /\ devices = done.start.devices

\* C23: a pass has just returned early on a summary that says offline with a
\* positive deviceCount, while a running session's record carries a
\* heartbeat of this instant.
C23_Witness ==
  /\ done.valid /\ done.outcome = "skipped"
  /\ user.status = "offline" /\ user.deviceCount > 0
  /\ \E s \in Sessions :
       /\ session[s] = "running" /\ s \in Ids(devices) /\ devices[s] = now

\* C24: the deviceCount of the summary is never negative, in every state
\* reached by session starts, teardowns (each session is torn down once) and
\* resolver passes.
C24_DeviceCountNeverNegative == user.deviceCount >= 0

\* C25: when the stop function of a session runs after the beforeunload
\* handler has already removed the session's record and decremented
\* deviceCount, it leaves deviceCount as it is.
C25_TeardownDecrementsOnce ==
  [][\A s \in Sessions :
       (/\ session[s] = "unloaded" /\ session'[s] = "stopped"
        /\ s \notin Ids(devices))
         => user'.deviceCount = user.deviceCount
    ]_vars

\* C26: whenever the connection is up and the presence record of a user says
\* online (only this client writes it), an on-disconnect hook for the record
\* is pending on the server.
C26_OnlineRecordHasHook ==
  \A u \in Users :
    (connected /\ statusRef[u].state = "online") => statusRef[u].onDisconnect

\* C27: when the writes of _updatePresenceState settle with retryCount at
\* MAX_RETRY_ATTEMPTS and the call ends (the writes succeeded, or they failed
\* and reconnect() ran to its end), a manager that was initialized for a user
\* is initialized for that user: uid, presenceRef and userDocRef are set.
C27_ReconnectInitializesAgain ==
  [][(/\ call.update.pc = "write" /\ call'.update.pc = "idle"
      /\ manager.retryCount >= MAX_RETRY_ATTEMPTS
      /\ manager.uid # "none")
       => (/\ manager'.uid = manager.uid
           /\ manager'.presenceRef = manager.uid
           /\ manager'.userDocRef = manager.uid)
    ]_vars

\* C28: while the manager is initialized (initialize has stored cleanupFn and
\* cleanup() has not run since), the stale-presence cleanup timer is armed.
C28_CleanupTimerArmed == manager.cleanupFn => manager.cleanupInterval

\* C29: retryCount never exceeds MAX_RETRY_ATTEMPTS.  Every retry of the
\* chain of one _updatePresenceState call adds 1 to retryCount and is made
\* below MAX_RETRY_ATTEMPTS, so the chain makes at most MAX_RETRY_ATTEMPTS
\* retries; when the writes settle with retryCount at MAX_RETRY_ATTEMPTS the
\* chain ends (by success, or by the one run of reconnect()) with no further
\* retry; and whenever the chain ends after a write, by a successful update
\* or by reconnect(), retryCount is 0 and isReconnecting is false.
C29_RetryChainBounded ==
  /\ [](manager.retryCount <= MAX_RETRY_ATTEMPTS)
  /\ [][/\ (call.update.pc = "write" /\ call'.update.pc = "retryWait")
            => /\ manager.retryCount < MAX_RETRY_ATTEMPTS
               /\ manager'.retryCount = manager.retryCount + 1
        /\ (/\ call.update.pc = "write" /\ call'.update.pc # "write"
            /\ manager.retryCount >= MAX_RETRY_ATTEMPTS)
            => call'.update.pc = "idle"
        /\ (call.update.pc = "write" /\ call'.update.pc = "idle")
            => (manager'.retryCount = 0 /\ ~manager'.isReconnecting)
      ]_vars

\* C29: every write of the chain has failed so far, retryCount has reached
\* MAX_RETRY_ATTEMPTS and the writes of the last retry are in flight.
C29_Witness ==
  /\ manager.retryCount = MAX_RETRY_ATTEMPTS
  /\ manager.lastSuccessfulUpdate = 0
  /\ call.update.pc = "write"
  /\ manager.uid # "none"

\* C30: a request that the endpoint answers with 429 leaves the Map of the
\* rate limiter as it was: no count and no window of any key changes.
C30_RejectedRequestConsumesNoQuota ==
  [][response'.status = 429
       => deviceRateLimitStore' = deviceRateLimitStore]_vars

====
